---- MODULE Spec2Model ----
(***************************************************************************)
(* Model of the map scene (src/src/mapscene.cpp) and of the terrain view   *)
(* wheel handling (terrainview.cpp) of the Tiled map editor.               *)
(*                                                                         *)
(* qreal coordinates (QRectF, QPointF) are fixed-point numbers: one pixel  *)
(* is Scale units.  Casts to int truncate toward zero, as in C++.          *)
(***************************************************************************)
EXTENDS Integers, Sequences, FiniteSets

VARIABLES
    layers,         \* environment: doc -> sequence of layer ids (Map::layers())
    currentLayer,   \* environment: doc -> MapDocument::currentLayer()
    mMapDocument,   \* MapScene::mMapDocument (NoDoc = null)
    mGridVisible,   \* MapScene::mGridVisible
    mBrushVisible,  \* MapScene::mBrushVisible
    mPainting,      \* MapScene::mPainting
    mBrush,         \* the BrushItem: visible, z, tilePos, mapDocument, deleted,
                    \* painting (between a beginPaint and the next endPaint)
    items,          \* the scene's item list
    sceneRect,      \* QGraphicsScene::sceneRect, <<x, y, w, h>> in units
    connections,    \* signal connections to this scene: <<doc, signal>>
    lines,          \* lines drawn by the last drawForeground call
    forwarded,      \* the last handler passed its event to QGraphicsScene
    updated,        \* the last handler called QGraphicsScene::update
    nullDeref,      \* a null mMapDocument has been dereferenced
    lastOp,         \* the handler that ran last and its argument
    tvEvent,        \* TerrainView: the last wheel event
    tvZoomDeltas,   \* TerrainView: deltas handed to Zoomable::handleWheelDelta
    tvForwarded     \* TerrainView: events passed to QTreeView::wheelEvent

docVars == <<layers, currentLayer>>
tvVars == <<tvEvent, tvZoomDeltas, tvForwarded>>
vars == <<layers, currentLayer, mMapDocument, mGridVisible, mBrushVisible,
          mPainting, mBrush, items, sceneRect, connections, lines, forwarded,
          updated, nullDeref, lastOp, tvEvent, tvZoomDeltas, tvForwarded>>

----------------------------------------------------------------------------
\* Bounds

\* units per pixel of a qreal coordinate
Scale == 2
\* most layers a map holds
MaxLayers == 2
\* mouse positions and exposed rectangles range over -MaxPos..MaxPos pixels
MaxPos == 3
\* wheel events delivered to the terrain view
MaxWheel == 2

----------------------------------------------------------------------------
\* Program constants

BrushZ == 10000

----------------------------------------------------------------------------
\* Documents, maps and layers (the data the scene traverses)

NoDoc == 0
Docs == {1, 2, 3}
SmallDocs == {1, 2}

MapDef(d) ==
    IF d = 1 THEN [width |-> 2, height |-> 1, tileWidth |-> 2, tileHeight |-> 3]
    ELSE IF d = 2 THEN [width |-> 1, height |-> 2, tileWidth |-> 3, tileHeight |-> 2]
    ELSE [width |-> 1, height |-> 1, tileWidth |-> 1, tileHeight |-> 1]

\* number of objects of the large object group of document 3
ManyObjects == BrushZ

LayerDef(id) ==
    IF id = 1 THEN [type |-> "tile", x |-> 0, y |-> 0, objects |-> << >>]
    ELSE IF id = 2 THEN [type |-> "objectgroup", x |-> 0, y |-> 0,
                         objects |-> << [x |-> 1, y |-> 2], [x |-> -1, y |-> 0] >>]
    ELSE IF id = 3 THEN [type |-> "tile", x |-> 1, y |-> -1, objects |-> << >>]
    ELSE IF id = 4 THEN [type |-> "objectgroup", x |-> 0, y |-> 0,
                         objects |-> << [x |-> 3, y |-> 1] >>]
    ELSE IF id = 5 THEN [type |-> "tile", x |-> 0, y |-> 0, objects |-> << >>]
    ELSE [type |-> "objectgroup", x |-> 0, y |-> 0,
          objects |-> [j \in 1..ManyObjects |-> [x |-> 0, y |-> 0]]]

\* the layers that can belong to the map of a document
PoolOf(d) == IF d = 1 THEN {1, 2, 3} ELSE IF d = 2 THEN {4} ELSE {5, 6}

InitLayers(d) == IF d = 1 THEN <<1, 2>> ELSE IF d = 2 THEN <<4>> ELSE <<5, 6>>

----------------------------------------------------------------------------
\* Arithmetic

Min(a, b) == IF a < b THEN a ELSE b

\* C++ integer division and (int) casts truncate toward zero (b > 0)
TruncDiv(a, b) == IF a >= 0 THEN a \div b ELSE -((-a) \div b)

\* (int) q for a qreal q
ToInt(q) == TruncDiv(q, Scale)

----------------------------------------------------------------------------
\* Scene items

\* the entry of mBrush in the scene's item list (its state is in mBrush)
BrushEntry ==
    [kind |-> "brush", doc |-> NoDoc, layer |-> 0, obj |-> 0,
     pos |-> <<0, 0>>, z |-> 0]

IsBrush(it) == it.kind = "brush"

\* new TileLayerItem(tl); setPos; setZValue
TileLayerItem(doc, id, z) ==
    [kind |-> "tilelayer", doc |-> doc, layer |-> id, obj |-> 0,
     pos |-> <<LayerDef(id).x * MapDef(doc).tileWidth,
               LayerDef(id).y * MapDef(doc).tileHeight>>,
     z |-> z]

\* new MapObjectItem(object); setPos; setZValue
MapObjectItem(doc, id, j, object, z) ==
    [kind |-> "object", doc |-> doc, layer |-> id, obj |-> j,
     pos |-> <<object.x, object.y>>, z |-> z]

\* new TileSelectionItem(mMapDocument); setZValue(10000 - 1)
TileSelectionItem(doc) ==
    [kind |-> "selection", doc |-> doc, layer |-> 0, obj |-> 0,
     pos |-> <<0, 0>>, z |-> 10000 - 1]

\* the foreach over map->layers(): the items added from layer i on, the
\* counter z holding the next z value
RECURSIVE LayerItems(_, _, _, _)
LayerItems(doc, lay, i, z) ==
    IF i > Len(lay) THEN << >>
    ELSE LET L == LayerDef(lay[i]) IN
         IF L.type = "tile"
         THEN <<TileLayerItem(doc, lay[i], z)>> \o LayerItems(doc, lay, i + 1, z + 1)
         ELSE IF L.type = "objectgroup"
         THEN LET objects == L.objects IN
              [j \in 1..Len(objects) |->
                  MapObjectItem(doc, lay[i], j, objects[j], z + j - 1)]
              \o LayerItems(doc, lay, i + 1, z + Len(objects))
         ELSE LayerItems(doc, lay, i + 1, z)

\* as ClearKeepingBrush, without the removeItem(mBrush) before clear()
ClearKeepingBrush_NoRemove(its) ==
    [items |-> <<BrushEntry>>,
     brushDeleted |-> Len(SelectSeq(its, LAMBDA it : IsBrush(it))) > 0]

\* as ClearKeepingBrush, without the clear()
ClearKeepingBrush_NoClear(its) ==
    LET removed == SelectSeq(its, LAMBDA it : ~IsBrush(it)) IN
    [items |-> Append(removed, BrushEntry), brushDeleted |-> FALSE]

\* removeItem(mBrush); clear(); addItem(mBrush): clear() deletes every item
\* still in the scene
ClearKeepingBrush(its) ==
    LET removed == SelectSeq(its, LAMBDA it : ~IsBrush(it)) IN
    [items |-> <<BrushEntry>>,
     brushDeleted |-> Len(SelectSeq(removed, LAMBDA it : IsBrush(it))) > 0]

NullRect == <<0, 0, 0, 0>>

\* as MapSceneRect, without the + 1 for the right and bottom grid lines
MapSceneRect_NoGridSpace(map) ==
    <<0, 0, (map.width * map.tileWidth) * Scale,
            (map.height * map.tileHeight) * Scale>>

\* setSceneRect(0, 0, width * tileWidth + 1, height * tileHeight + 1)
MapSceneRect(map) ==
    <<0, 0, (map.width * map.tileWidth + 1) * Scale,
            (map.height * map.tileHeight + 1) * Scale>>

\* MapScene::refreshScene on document doc whose map holds the layers lay
RefreshScene(doc, lay, its) ==
    LET kept == ClearKeepingBrush(its) IN
    IF doc = NoDoc
    THEN [items |-> kept.items, sceneRect |-> NullRect,
          brushDeleted |-> kept.brushDeleted]
    ELSE [items |-> Append(kept.items \o LayerItems(doc, lay, 1, 0),
                           TileSelectionItem(doc)),
          sceneRect |-> MapSceneRect(MapDef(doc)),
          brushDeleted |-> kept.brushDeleted]

----------------------------------------------------------------------------
\* Brush visibility

\* as UpdateBrushVisibility, without the test of mBrushVisible
UpdateBrushVisibility_IgnoreFlag(flag, doc, lay, cur) ==
    IF doc # NoDoc
    THEN IF cur >= 0 /\ cur < Len(lay)
         THEN {LayerDef(lay[cur + 1]).type = "tile"}
         ELSE BOOLEAN
    ELSE {FALSE}

\* MapScene::updateBrushVisibility: the values showBrush can take.  layers()
\* .at(currentLayer) with an index out of range is undefined behaviour.
UpdateBrushVisibility(flag, doc, lay, cur) ==
    IF flag /\ doc # NoDoc
    THEN IF cur >= 0 /\ cur < Len(lay)
         THEN {LayerDef(lay[cur + 1]).type = "tile"}
         ELSE BOOLEAN
    ELSE {FALSE}

----------------------------------------------------------------------------
\* Grid

\* the drawLine calls of MapScene::drawForeground for the exposed rectangle
\* rect = <<x, y, w, h>>
DrawForeground(doc, gridVisible, rect) ==
    IF doc = NoDoc \/ ~gridVisible THEN {}
    ELSE LET map == MapDef(doc)
             tileWidth == map.tileWidth
             tileHeight == map.tileHeight
             startX == TruncDiv(rect[1], Scale * tileWidth) * tileWidth
             startY == TruncDiv(rect[2], Scale * tileHeight) * tileHeight
             endX == Min(ToInt(rect[1] + rect[3]), map.width * tileWidth + 1)
             endY == Min(ToInt(rect[2] + rect[4]), map.height * tileHeight + 1)
         IN  {[dir |-> "v", x1 |-> x, y1 |-> ToInt(rect[2]), x2 |-> x, y2 |-> endY - 1] :
                 x \in {c \in startX..(endX - 1) : (c - startX) % tileWidth = 0}}
             \cup
             {[dir |-> "h", x1 |-> ToInt(rect[1]), y1 |-> y, x2 |-> endX - 1, y2 |-> y] :
                 y \in {c \in startY..(endY - 1) : (c - startY) % tileHeight = 0}}

----------------------------------------------------------------------------
\* Mouse

\* the tile position MapScene::mouseMoveEvent hands to mBrush->setTilePos
TilePosAt(map, pos) ==
    <<TruncDiv(ToInt(pos[1]), map.tileWidth),
      TruncDiv(ToInt(pos[2]), map.tileHeight)>>

----------------------------------------------------------------------------
\* Terrain view

Modifiers == {"Shift", "Control", "Alt"}

WheelEvents ==
    [modifiers : SUBSET Modifiers, orientation : {"Vertical", "Horizontal"},
     delta : {-120, 120}]

\* as WheelZooms, without the test of the orientation
WheelZooms_AnyOrientation(e) == (e.modifiers \cap {"Control"}) # {}

\* event->modifiers() & Qt::ControlModifier && event->orientation() == Qt::Vertical
WheelZooms(e) ==
    (e.modifiers \cap {"Control"}) # {} /\ e.orientation = "Vertical"

----------------------------------------------------------------------------
\* Initial state: MapScene::MapScene and TerrainView::TerrainView

Init ==
    /\ layers = [d \in Docs |-> InitLayers(d)]
    /\ currentLayer = [d \in Docs |-> 0]
    /\ mMapDocument = NoDoc
    /\ mGridVisible = TRUE
    /\ mBrushVisible = FALSE
    /\ mPainting = FALSE
    /\ mBrush = [visible |-> FALSE, z |-> BrushZ, tilePos |-> <<0, 0>>,
                 mapDocument |-> NoDoc, deleted |-> FALSE, painting |-> FALSE]
    /\ items = <<BrushEntry>>
    /\ sceneRect = NullRect
    /\ connections = {}
    /\ lines = {}
    /\ forwarded = FALSE
    /\ updated = FALSE
    /\ nullDeref = FALSE
    /\ lastOp = [name |-> "MapScene", arg |-> 0]
    /\ tvEvent = [modifiers |-> {}, orientation |-> "Vertical", delta |-> 0]
    /\ tvZoomDeltas = << >>
    /\ tvForwarded = 0

----------------------------------------------------------------------------
\* What the handlers read of the current document

CurLayers == IF mMapDocument = NoDoc THEN << >> ELSE layers[mMapDocument]
CurIndex == IF mMapDocument = NoDoc THEN -1 ELSE currentLayer[mMapDocument]

\* what a handler call leaves to observe
Obs(name, arg, fwd, lns, upd) ==
    /\ lastOp' = [name |-> name, arg |-> arg]
    /\ forwarded' = fwd
    /\ lines' = lns
    /\ updated' = upd

\* as Disconnect, leaving the connections in place
Disconnect_Nothing(conns, doc) == conns

\* QObject::disconnect(this) on the document and on its layer model
Disconnect(conns, doc) == {c \in conns : c[1] # doc}

\* the three connect calls of setMapDocument
Connect(conns, doc) ==
    conns \cup {<<doc, "regionChanged">>, <<doc, "rowsInserted">>,
                <<doc, "rowsRemoved">>}

----------------------------------------------------------------------------
\* MapScene operations

SetMapDocument(mapDocument) ==
    LET lay == IF mapDocument = NoDoc THEN << >> ELSE layers[mapDocument]
        cur == IF mapDocument = NoDoc THEN -1 ELSE currentLayer[mapDocument]
        disc == IF mMapDocument # NoDoc THEN Disconnect(connections, mMapDocument)
                ELSE connections
        r == RefreshScene(mapDocument, lay, items)
    IN  /\ mMapDocument' = mapDocument
        /\ items' = r.items
        /\ sceneRect' = r.sceneRect
        /\ connections' = IF mapDocument # NoDoc THEN Connect(disc, mapDocument) ELSE disc
        /\ \E showBrush \in UpdateBrushVisibility(mBrushVisible, mapDocument, lay, cur) :
              mBrush' = [mBrush EXCEPT !.mapDocument = mapDocument,
                                       !.visible = showBrush,
                                       !.deleted = @ \/ r.brushDeleted]
        /\ Obs("setMapDocument", mapDocument, FALSE, {}, FALSE)
        /\ UNCHANGED <<mGridVisible, mBrushVisible, mPainting, nullDeref>>
        /\ UNCHANGED docVars /\ UNCHANGED tvVars

\* refreshScene called directly
RefreshSceneCall ==
    LET r == RefreshScene(mMapDocument, CurLayers, items) IN
    /\ items' = r.items
    /\ sceneRect' = r.sceneRect
    /\ mBrush' = [mBrush EXCEPT !.deleted = @ \/ r.brushDeleted]
    /\ Obs("refreshScene", 0, FALSE, {}, FALSE)
    /\ UNCHANGED <<mMapDocument, mGridVisible, mBrushVisible, mPainting,
                   connections, nullDeref>>
    /\ UNCHANGED docVars /\ UNCHANGED tvVars

SetGridVisible(visible) ==
    /\ IF mGridVisible = visible
       THEN /\ UNCHANGED mGridVisible
            /\ Obs("setGridVisible", visible, FALSE, {}, FALSE)
       ELSE /\ mGridVisible' = visible
            /\ Obs("setGridVisible", visible, FALSE, {}, TRUE)
    /\ UNCHANGED <<mMapDocument, mBrushVisible, mPainting, mBrush, items,
                   sceneRect, connections, nullDeref>>
    /\ UNCHANGED docVars /\ UNCHANGED tvVars

\* as SetBrushVisibleBody, without the early return on an unchanged value
SetBrushVisibleBody_AlwaysUpdate(visible) ==
    /\ mBrushVisible' = visible
    /\ \E showBrush \in UpdateBrushVisibility(visible, mMapDocument,
                                              CurLayers, CurIndex) :
          mBrush' = [mBrush EXCEPT !.visible = showBrush]

\* the body of MapScene::setBrushVisible
SetBrushVisibleBody(visible) ==
    IF mBrushVisible = visible
    THEN UNCHANGED <<mBrushVisible, mBrush>>
    ELSE /\ mBrushVisible' = visible
         /\ \E showBrush \in UpdateBrushVisibility(visible, mMapDocument,
                                                   CurLayers, CurIndex) :
               mBrush' = [mBrush EXCEPT !.visible = showBrush]

SetBrushVisible(visible) ==
    /\ SetBrushVisibleBody(visible)
    /\ Obs("setBrushVisible", visible, FALSE, {}, FALSE)
    /\ UNCHANGED <<mMapDocument, mGridVisible, mPainting, items, sceneRect,
                   connections, nullDeref>>
    /\ UNCHANGED docVars /\ UNCHANGED tvVars

EventTypes == {"Enter", "Leave", "Other"}

\* MapScene::event
Event(type) ==
    /\ IF type = "Enter" THEN SetBrushVisibleBody(TRUE)
       ELSE IF type = "Leave" THEN SetBrushVisibleBody(FALSE)
       ELSE UNCHANGED <<mBrushVisible, mBrush>>
    /\ Obs("event", type, TRUE, {}, FALSE)
    /\ UNCHANGED <<mMapDocument, mGridVisible, mPainting, items, sceneRect,
                   connections, nullDeref>>
    /\ UNCHANGED docVars /\ UNCHANGED tvVars

\* MapScene::drawForeground(painter, rect)
DrawForegroundCall(rect) ==
    /\ Obs("drawForeground", rect, FALSE,
           DrawForeground(mMapDocument, mGridVisible, rect), FALSE)
    /\ UNCHANGED <<mMapDocument, mGridVisible, mBrushVisible, mPainting, mBrush,
                   items, sceneRect, connections, nullDeref>>
    /\ UNCHANGED docVars /\ UNCHANGED tvVars

\* MapScene::mouseMoveEvent; accepted is what isAccepted() returns after the
\* scene's items have seen the event
MouseMoveEvent(pos, accepted) ==
    /\ IF mMapDocument = NoDoc
       THEN /\ UNCHANGED mBrush
            /\ Obs("mouseMoveEvent", <<pos, accepted>>, FALSE, {}, FALSE)
       ELSE /\ mBrush' = IF accepted THEN mBrush
                         ELSE [mBrush EXCEPT !.tilePos =
                                   TilePosAt(MapDef(mMapDocument), pos)]
            /\ Obs("mouseMoveEvent", <<pos, accepted>>, TRUE, {}, FALSE)
    /\ UNCHANGED <<mMapDocument, mGridVisible, mBrushVisible, mPainting, items,
                   sceneRect, connections, nullDeref>>
    /\ UNCHANGED docVars /\ UNCHANGED tvVars

\* MapScene::mousePressEvent; the argument observed is whether beginPaint ran
MousePressEvent ==
    /\ mPainting' = IF mBrush.visible THEN TRUE ELSE mPainting
    /\ mBrush' = IF mBrush.visible THEN [mBrush EXCEPT !.painting = TRUE]
                 ELSE mBrush
    /\ Obs("mousePressEvent", mBrush.visible, FALSE, {}, FALSE)
    /\ UNCHANGED <<mMapDocument, mGridVisible, mBrushVisible, items,
                   sceneRect, connections, nullDeref>>
    /\ UNCHANGED docVars /\ UNCHANGED tvVars

\* MapScene::mouseReleaseEvent; the argument observed is whether endPaint ran
MouseReleaseEvent ==
    /\ mPainting' = FALSE
    /\ mBrush' = IF mPainting THEN [mBrush EXCEPT !.painting = FALSE]
                 ELSE mBrush
    /\ Obs("mouseReleaseEvent", mPainting, FALSE, {}, FALSE)
    /\ UNCHANGED <<mMapDocument, mGridVisible, mBrushVisible, items,
                   sceneRect, connections, nullDeref>>
    /\ UNCHANGED docVars /\ UNCHANGED tvVars

----------------------------------------------------------------------------
\* The documents: what the editor does to them, and the signals they emit

ValidCurrent(lay) == IF Len(lay) = 0 THEN {-1} ELSE 0..(Len(lay) - 1)

InsertAt(lay, k, id) ==
    [j \in 1..(Len(lay) + 1) |->
        IF j < k THEN lay[j] ELSE IF j = k THEN id ELSE lay[j - 1]]

RemoveAt(lay, k) ==
    [j \in 1..(Len(lay) - 1) |-> IF j < k THEN lay[j] ELSE lay[j + 1]]

\* the slot refreshScene run by a rowsInserted or rowsRemoved signal of
\* document d, when connected
LayerModelSignal(d, signal, name, arg) ==
    IF <<d, signal>> \in connections
    THEN LET lay == IF mMapDocument = NoDoc THEN << >> ELSE layers'[mMapDocument]
             r == RefreshScene(mMapDocument, lay, items)
         IN  /\ items' = r.items
             /\ sceneRect' = r.sceneRect
             /\ mBrush' = [mBrush EXCEPT !.deleted = @ \/ r.brushDeleted]
             /\ Obs(name, arg, FALSE, {}, FALSE)
    ELSE /\ UNCHANGED <<items, sceneRect, mBrush>>
         /\ Obs(name, arg, FALSE, {}, FALSE)

SetCurrentLayer(d, index) ==
    /\ index \in ValidCurrent(layers[d])
    /\ index # currentLayer[d]
    /\ currentLayer' = [currentLayer EXCEPT ![d] = index]
    /\ Obs("setCurrentLayer", <<d, index>>, FALSE, {}, FALSE)
    /\ UNCHANGED <<layers, mMapDocument, mGridVisible, mBrushVisible, mPainting,
                   mBrush, items, sceneRect, connections, nullDeref>>
    /\ UNCHANGED tvVars

InsertLayer(d, id, k) ==
    /\ Len(layers[d]) < MaxLayers
    /\ id \in PoolOf(d)
    /\ \A j \in 1..Len(layers[d]) : layers[d][j] # id
    /\ k \in 1..(Len(layers[d]) + 1)
    /\ layers' = [layers EXCEPT ![d] = InsertAt(@, k, id)]
    /\ \E cur \in ValidCurrent(layers'[d]) :
          currentLayer' = [currentLayer EXCEPT ![d] = cur]
    /\ LayerModelSignal(d, "rowsInserted", "rowsInserted", <<d, id, k>>)
    /\ UNCHANGED <<mMapDocument, mGridVisible, mBrushVisible, mPainting,
                   connections, nullDeref>>
    /\ UNCHANGED tvVars

RemoveLayer(d, k) ==
    /\ k \in 1..Len(layers[d])
    /\ layers' = [layers EXCEPT ![d] = RemoveAt(@, k)]
    /\ \E cur \in ValidCurrent(layers'[d]) :
          currentLayer' = [currentLayer EXCEPT ![d] = cur]
    /\ LayerModelSignal(d, "rowsRemoved", "rowsRemoved", <<d, k>>)
    /\ UNCHANGED <<mMapDocument, mGridVisible, mBrushVisible, mPainting,
                   connections, nullDeref>>
    /\ UNCHANGED tvVars

\* document d emits regionChanged; the slot MapScene::repaintRegion runs when
\* connected and reads mMapDocument
RegionChanged(d) ==
    /\ <<d, "regionChanged">> \in connections
    /\ nullDeref' = (nullDeref \/ mMapDocument = NoDoc)
    /\ Obs("repaintRegion", d, FALSE, {}, TRUE)
    /\ UNCHANGED <<mMapDocument, mGridVisible, mBrushVisible, mPainting, mBrush,
                   items, sceneRect, connections>>
    /\ UNCHANGED docVars /\ UNCHANGED tvVars

----------------------------------------------------------------------------
\* TerrainView::wheelEvent

WheelEvent(e) ==
    /\ Len(tvZoomDeltas) + tvForwarded < MaxWheel
    /\ tvEvent' = e
    /\ IF WheelZooms(e)
       THEN /\ tvZoomDeltas' = Append(tvZoomDeltas, e.delta)
            /\ UNCHANGED tvForwarded
       ELSE /\ tvForwarded' = tvForwarded + 1
            /\ UNCHANGED tvZoomDeltas
    /\ UNCHANGED <<mMapDocument, mGridVisible, mBrushVisible, mPainting, mBrush,
                   items, sceneRect, connections, lines, forwarded, updated,
                   nullDeref, lastOp>>
    /\ UNCHANGED docVars

----------------------------------------------------------------------------
\* Inputs

\* mouse positions of the scene specification: a few, on both sides of 0
FewPoints == {<<-1 * Scale, Scale>>, <<3 * Scale + 1, -3 * Scale>>}

\* every position within MaxPos pixels of the origin
AllPoints ==
    {<<x, y>> : x \in (-MaxPos * Scale)..(MaxPos * Scale),
                y \in (-MaxPos * Scale)..(MaxPos * Scale)}

\* exposed rectangles of the scene specification
FewRects == {sceneRect, <<-Scale, Scale + 1, 3 * Scale, 2 * Scale>>}

\* exposed rectangles starting anywhere within MaxPos pixels of the origin,
\* small ones and ones that reach beyond the map
AllRects ==
    {<<x, y, w, h>> : x \in (-MaxPos * Scale)..(MaxPos * Scale),
                      y \in (-MaxPos * Scale)..(MaxPos * Scale),
                      w \in {Scale + 1, 2 * MaxPos * Scale},
                      h \in {Scale + 1, 2 * MaxPos * Scale}}

----------------------------------------------------------------------------
\* Specifications

\* the scene, its documents and their layers
Next ==
    \/ \E d \in SmallDocs \cup {NoDoc} : SetMapDocument(d)
    \/ RefreshSceneCall
    \/ \E v \in BOOLEAN : SetGridVisible(v)
    \/ \E v \in BOOLEAN : SetBrushVisible(v)
    \/ \E t \in EventTypes : Event(t)
    \/ \E rect \in FewRects : DrawForegroundCall(rect)
    \/ \E pos \in FewPoints, a \in BOOLEAN : MouseMoveEvent(pos, a)
    \/ MousePressEvent
    \/ MouseReleaseEvent
    \/ \E d \in SmallDocs, i \in 0..(MaxLayers - 1) : SetCurrentLayer(d, i)
    \/ \E d \in SmallDocs : \E id \in PoolOf(d), k \in 1..MaxLayers : InsertLayer(d, id, k)
    \/ \E d \in SmallDocs, k \in 1..MaxLayers : RemoveLayer(d, k)
    \/ \E d \in SmallDocs : RegionChanged(d)

Spec == Init /\ [][Next]_vars

\* mouse snapping over every position
NextSnap ==
    \/ \E d \in SmallDocs \cup {NoDoc} : SetMapDocument(d)
    \/ \E pos \in AllPoints, a \in BOOLEAN : MouseMoveEvent(pos, a)

SpecSnap == Init /\ [][NextSnap]_vars

\* the large document
NextZ ==
    \/ \E d \in {NoDoc, 3} : SetMapDocument(d)
    \/ \E t \in EventTypes : Event(t)
    \/ \E d \in {3} : \E id \in PoolOf(d), k \in 1..MaxLayers : InsertLayer(d, id, k)
    \/ \E d \in {3}, k \in 1..MaxLayers : RemoveLayer(d, k)

SpecZ == Init /\ [][NextZ]_vars

\* the grid over every exposed rectangle
NextGrid ==
    \/ \E d \in SmallDocs \cup {NoDoc} : SetMapDocument(d)
    \/ \E v \in BOOLEAN : SetGridVisible(v)
    \/ \E rect \in AllRects : DrawForegroundCall(rect)

SpecGrid == Init /\ [][NextGrid]_vars

\* the terrain view
NextTerrain == \E e \in WheelEvents : WheelEvent(e)

SpecTerrain == Init /\ [][NextTerrain]_vars

----------------------------------------------------------------------------
\* Properties

DocSet == mMapDocument # NoDoc

\* the document's current layer exists and is a tile layer
CurrentIsTileLayer ==
    /\ CurIndex >= 0
    /\ CurIndex < Len(CurLayers)
    /\ LayerDef(CurLayers[CurIndex + 1]).type = "tile"

IsOp(name) == lastOp.name = name
IsEvent(type) == lastOp.name = "event" /\ lastOp.arg = type

\* C1: the brush item is visible only if a document is set and its current
\* layer is a tile layer, in every reachable state.
C1_BrushOnlyOnTileLayer ==
    mBrush.visible => (DocSet /\ CurrentIsTileLayer)

\* C2: right after an Enter event the brush is visible whenever a document is
\* set and its current layer is a tile layer.
C2_EnterShowsBrush ==
    (IsEvent("Enter") /\ DocSet /\ CurrentIsTileLayer) => mBrush.visible

\* C3: right after a Leave event the brush is hidden and the brush-visible flag
\* is false; and from a state with the flag false and the brush hidden, every
\* step other than an Enter event or setBrushVisible(true) leaves both so.
C3_LeaveHidesBrush ==
    /\ [](IsEvent("Leave") => (~mBrush.visible /\ ~mBrushVisible))
    /\ [][(/\ ~mBrushVisible
           /\ ~mBrush.visible
           /\ ~(lastOp'.name = "event" /\ lastOp'.arg = "Enter")
           /\ ~(lastOp'.name = "setBrushVisible" /\ lastOp'.arg = TRUE))
          => (~mBrushVisible' /\ ~mBrush'.visible)]_vars

\* a Leave event arrived while a document with a current tile layer is shown
C3_Witness ==
    IsEvent("Leave") /\ DocSet /\ CurrentIsTileLayer /\ ~mBrush.visible

\* C4: a mouse move at the integer pixel position (x, y) that no item accepts
\* puts the brush on the tile cell that contains (x, y), negative positions
\* included.
C4_SnapsToContainingCell ==
    (/\ IsOp("mouseMoveEvent")
     /\ DocSet
     /\ ~lastOp.arg[2]
     /\ lastOp.arg[1][1] % Scale = 0
     /\ lastOp.arg[1][2] % Scale = 0)
    => LET x == lastOp.arg[1][1] \div Scale
           y == lastOp.arg[1][2] \div Scale
           tileX == mBrush.tilePos[1]
           tileY == mBrush.tilePos[2]
           map == MapDef(mMapDocument)
       IN  /\ tileX * map.tileWidth <= x
           /\ x < (tileX + 1) * map.tileWidth
           /\ tileY * map.tileHeight <= y
           /\ y < (tileY + 1) * map.tileHeight

\* C5: with no document set the null document is never dereferenced: no signal
\* of a document reaches the scene, the brush is hidden, the scene holds only
\* the brush and has the empty scene rectangle, drawForeground draws nothing,
\* and mouseMoveEvent neither forwards the event nor moves the brush.
C5_NoDocumentIsSafe ==
    /\ [](~nullDeref)
    /\ [](~DocSet =>
            /\ connections = {}
            /\ ~mBrush.visible
            /\ sceneRect = NullRect
            /\ items = <<BrushEntry>>
            /\ (IsOp("drawForeground") => lines = {})
            /\ (IsOp("mouseMoveEvent") => ~forwarded))
    /\ [][(~DocSet /\ lastOp'.name = "mouseMoveEvent")
          => mBrush'.tilePos = mBrush.tilePos]_vars

\* a mouse move arrives after the document was taken away again, the brush
\* flag still set and the brush off the origin
C5_Witness ==
    /\ ~DocSet
    /\ IsOp("mouseMoveEvent")
    /\ mBrushVisible
    /\ mBrush.tilePos # <<0, 0>>

RefreshRan(op) ==
    op.name \in {"refreshScene", "setMapDocument", "rowsInserted", "rowsRemoved"}

NumBrushEntries == Len(SelectSeq(items, LAMBDA it : IsBrush(it)))

\* C6: the scene always holds the brush exactly once, never deleted, at z
\* 10000; a step that runs refreshScene leaves the brush's z value alone, and
\* its visibility and tile position too when the refresh is all the step does
\* to the brush (setMapDocument goes on to hand the brush the document and to
\* recompute its visibility).
C6_RefreshKeepsBrush ==
    /\ [](NumBrushEntries = 1 /\ ~mBrush.deleted /\ mBrush.z = 10000)
    /\ [][RefreshRan(lastOp') =>
            /\ mBrush'.z = mBrush.z
            /\ (lastOp'.name # "setMapDocument" =>
                  /\ mBrush'.visible = mBrush.visible
                  /\ mBrush'.tilePos = mBrush.tilePos)]_vars

\* a layer was inserted into the shown map while the brush is visible and off
\* the origin
C6_Witness ==
    /\ IsOp("rowsInserted")
    /\ DocSet
    /\ Len(items) > 2
    /\ mBrush.visible
    /\ mBrush.tilePos # <<0, 0>>

\* C7: a wheel event with Control held and vertical orientation hands its
\* delta to the Zoomable and is not forwarded; every other wheel event is
\* forwarded to the tree view and leaves the Zoomable alone.
C7_WheelZoomsOrScrolls ==
    [][LET e == tvEvent' IN
       IF "Control" \in e.modifiers /\ e.orientation = "Vertical"
       THEN /\ tvZoomDeltas' = Append(tvZoomDeltas, e.delta)
            /\ tvForwarded' = tvForwarded
       ELSE /\ tvZoomDeltas' = tvZoomDeltas
            /\ tvForwarded' = tvForwarded + 1]_tvVars

\* a Control + horizontal wheel event was forwarded after a zooming one
C7_Witness ==
    /\ "Control" \in tvEvent.modifiers
    /\ tvEvent.orientation = "Horizontal"
    /\ Len(tvZoomDeltas) = 1
    /\ tvForwarded = 1

\* C8: with a document set the scene rectangle is (0, 0, width*tileWidth + 1,
\* height*tileHeight + 1), and drawForeground on exactly that rectangle with
\* the grid visible draws a vertical line at every k*tileWidth, k = 0..width,
\* and a horizontal line at every k*tileHeight, k = 0..height.
C8_SceneRectHoldsGrid ==
    DocSet =>
        LET map == MapDef(mMapDocument) IN
        /\ sceneRect = <<0, 0, Scale * (map.width * map.tileWidth + 1),
                               Scale * (map.height * map.tileHeight + 1)>>
        /\ (IsOp("drawForeground") /\ lastOp.arg = sceneRect /\ mGridVisible) =>
              /\ \A k \in 0..map.width : \E l \in lines :
                    l.dir = "v" /\ l.x1 = k * map.tileWidth /\ l.x2 = k * map.tileWidth
              /\ \A k \in 0..map.height : \E l \in lines :
                    l.dir = "h" /\ l.y1 = k * map.tileHeight /\ l.y2 = k * map.tileHeight

\* the whole scene rectangle of a document was exposed with the grid on
C8_Witness ==
    DocSet /\ IsOp("drawForeground") /\ lastOp.arg = sceneRect /\ mGridVisible

\* the index in the map's layer list of the layer an item was built from
LayerIndexOf(it) == CHOOSE i \in 1..Len(CurLayers) : CurLayers[i] = it.layer

\* C9: with a document set, the items built from the layers (all but the
\* brush, first, and the tile selection item, last) have the z values 0, 1,
\* 2, ... in layer order, each is strictly below the tile selection item at
\* 9999, and that is strictly below the brush at 10000.
C9_LayerItemsBelowSelection ==
    DocSet =>
        LET n == Len(items) IN
        /\ items[n].kind = "selection"
        /\ items[n].z = 9999
        /\ mBrush.z = 10000
        /\ items[n].z < mBrush.z
        /\ \A k \in 2..(n - 1) :
              /\ items[k].z = k - 2
              /\ items[k].z < items[n].z
              /\ (k < n - 1 => LayerIndexOf(items[k]) <= LayerIndexOf(items[k + 1]))

ItemsOf(kind, id, j) ==
    SelectSeq(items, LAMBDA it : it.kind = kind /\ it.layer = id /\ it.obj = j)

RECURSIVE NumLayerItems(_, _)
NumLayerItems(lay, i) ==
    IF i > Len(lay) THEN 0
    ELSE (IF LayerDef(lay[i]).type = "tile" THEN 1 ELSE Len(LayerDef(lay[i]).objects))
         + NumLayerItems(lay, i + 1)

\* C10: the scene holds exactly the brush, one tile selection item of the
\* current document if one is set, one tile-layer item per tile layer of the
\* current map at (layer.x*tileWidth, layer.y*tileHeight), one object item per
\* object of each object group, and nothing else.
C10_SceneHoldsCurrentMap ==
    /\ NumBrushEntries = 1
    /\ Len(SelectSeq(items, LAMBDA it : it.kind = "selection"))
          = (IF DocSet THEN 1 ELSE 0)
    /\ \A k \in 1..Len(items) : IsBrush(items[k]) \/ items[k].doc = mMapDocument
    /\ \A i \in 1..Len(CurLayers) :
          LET id == CurLayers[i]
              L == LayerDef(id)
              map == MapDef(mMapDocument)
          IN  IF L.type = "tile"
              THEN /\ Len(ItemsOf("tilelayer", id, 0)) = 1
                   /\ ItemsOf("tilelayer", id, 0)[1].pos
                         = <<L.x * map.tileWidth, L.y * map.tileHeight>>
              ELSE \A j \in 1..Len(L.objects) : Len(ItemsOf("object", id, j)) = 1
    /\ Len(items) = 1 + (IF DocSet THEN 1 ELSE 0) + NumLayerItems(CurLayers, 1)

\* a layer was inserted into the shown map, which now holds a tile layer off
\* the origin and an object group
C10_Witness ==
    /\ mMapDocument = 1
    /\ IsOp("rowsInserted")
    /\ Len(CurLayers) = 2
    /\ \E k \in 1..Len(items) : items[k].kind = "tilelayer" /\ items[k].pos # <<0, 0>>
    /\ \E k \in 1..Len(items) : items[k].kind = "object"

\* C11: beginPaint and endPaint alternate, beginPaint first: beginPaint is
\* called only while the painting flag is false and the brush is not between
\* a beginPaint and an endPaint, endPaint only while the flag is true, and the
\* flag is true exactly between a beginPaint and the next endPaint.
C11_PaintCallsAlternate ==
    /\ [](mPainting <=> mBrush.painting)
    /\ [][(lastOp'.name = "mousePressEvent" /\ lastOp'.arg)
          => (~mPainting /\ ~mBrush.painting)]_vars
    /\ [][(lastOp'.name = "mouseReleaseEvent" /\ lastOp'.arg)
          => (mPainting /\ mBrush.painting)]_vars

\* C12: every line drawForeground draws lies on the map grid and inside the
\* map, whatever the exposed rectangle: a vertical line at a multiple of
\* tileWidth within 0..width*tileWidth and ending no lower than the bottom
\* edge, a horizontal line at a multiple of tileHeight within
\* 0..height*tileHeight and ending no further right than the right edge.
C12_GridLinesInsideMap ==
    (IsOp("drawForeground") /\ DocSet) =>
        LET map == MapDef(mMapDocument) IN
        \A l \in lines :
            IF l.dir = "v"
            THEN /\ l.x1 % map.tileWidth = 0
                 /\ 0 <= l.x1
                 /\ l.x1 <= map.width * map.tileWidth
                 /\ l.y2 <= map.height * map.tileHeight
            ELSE /\ l.y1 % map.tileHeight = 0
                 /\ 0 <= l.y1
                 /\ l.y1 <= map.height * map.tileHeight
                 /\ l.x2 <= map.width * map.tileWidth

\* the state of the scene and of its documents, without what the last handler
\* left to observe
programVars ==
    <<mMapDocument, mGridVisible, mBrushVisible, mPainting, mBrush, items,
      sceneRect, connections, layers, currentLayer>>

\* C13: setGridVisible(v) with v the current grid flag changes no state and
\* requests no repaint, setBrushVisible(v) with v the current brush flag
\* changes no state (the brush's visibility is not recomputed); with another
\* value each sets its flag to v; and drawForeground draws no lines while the
\* grid flag is false.
C13_TogglesActOnChange ==
    /\ [][lastOp'.name = "setGridVisible" =>
            IF lastOp'.arg = mGridVisible
            THEN programVars' = programVars /\ ~updated'
            ELSE mGridVisible' = lastOp'.arg]_vars
    /\ [][lastOp'.name = "setBrushVisible" =>
            IF lastOp'.arg = mBrushVisible
            THEN programVars' = programVars
            ELSE mBrushVisible' = lastOp'.arg]_vars
    /\ []((IsOp("drawForeground") /\ ~mGridVisible) => lines = {})

\* setBrushVisible(true) was called with the flag already true while the brush
\* is hidden on a tile layer that became current after the last recomputation
C13_Witness ==
    /\ IsOp("setBrushVisible")
    /\ lastOp.arg = TRUE
    /\ mBrushVisible
    /\ ~mBrush.visible
    /\ DocSet
    /\ CurrentIsTileLayer

====
